---- MODULE Spec2Model ----
(***************************************************************************)
(* Model of src/main.py: the PDF reconstruction pipeline                   *)
(* (process_pdf_with_images_and_text), the local captioning backend        *)
(* (LocalLLMClient.Chat.Completions.create, describe_image_with_llm) and   *)
(* the top-level call process_document with its temporary file.            *)
(***************************************************************************)
EXTENDS Integers, Sequences, FiniteSets, TLC

\* ------------------------------------------------------------------ bounds
MaxPages == 2
MaxLines == 2
MaxWords == 2
MaxImages == 2
MaxMessages == 2
MaxParts == 1

\* ------------------------------------------------------- program constants
\* payload_size > 3_000_000
SizeCap == 3000000
\* figure_counter = 1
FirstFigure == 1

\* ------------------------------------------------------------ input domains
\* Strings the code searches inside (line and word texts) are sequences of
\* characters, so that "w['text'] in ln" is a real substring test.
LineTexts == { <<>>, <<"a">>, <<"b">>, <<"a", "b">> }
WordTexts == { <<"a">>, <<"b">> }
Tops == {10, 50}
\* image bounding boxes (y0, y1); midpoints 30 and 60
Boxes == { <<20, 40>>, <<50, 70>> }
\* lengths of the base64 text of a cropped image
PayloadLens == {1000, SizeCap + 1}
\* raw contents a backend may answer with
RawContents == {"A chart.", " A chart. "}

SeqsUpTo(S, n) == UNION { [1..k -> S] : k \in 0..n }
NonEmptySeqsUpTo(S, n) == UNION { [1..k -> S] : k \in 1..n }

\* ---------------------------------------------------------------- numbers
\* Positions are averages and midpoints: exact fractions in lowest terms.
RECURSIVE Gcd(_, _)
Gcd(a, b) == IF b = 0 THEN a ELSE Gcd(b, a % b)

Frac(n, d) == LET g == Gcd(n, d) IN [def |-> TRUE, num |-> n \div g, den |-> d \div g]
\* avg_y = None
NoneY == [def |-> FALSE, num |-> 0, den |-> 1]

\* a >= b on fractions
Geq(a, b) == a.num * b.den >= b.num * a.den
Leq(a, b) == Geq(b, a)

\* ----------------------------------------------------------- page extraction
RECURSIVE IsPrefixAt(_, _, _, _)
IsPrefixAt(w, ln, at, k) ==
  IF k > Len(w) THEN TRUE
  ELSE IF ln[at + k - 1] # w[k] THEN FALSE
  ELSE IsPrefixAt(w, ln, at, k + 1)

\* w in ln  (substring)
IsSubstring(w, ln) ==
  \E at \in 1..(Len(ln) - Len(w) + 1) : IsPrefixAt(w, ln, at, 1)

\* ln_words = [w for w in words if w['text'] in ln]
LnWords(ln, words) == SelectSeq(words, LAMBDA w : IsSubstring(w.text, ln))

RECURSIVE SumTops(_, _)
SumTops(ws, i) == IF i > Len(ws) THEN 0 ELSE ws[i].top + SumTops(ws, i + 1)

\* avg_y of one line
AvgY(ln, words) ==
  LET lw == LnWords(ln, words)
  IN IF lw # <<>> THEN Frac(SumTops(lw, 1), Len(lw)) ELSE NoneY

\* line_positions = [(ln, avg_y) for ln in lines]
LinePositions(lines, words) ==
  [i \in 1..Len(lines) |-> [ln |-> lines[i], avg_y |-> AvgY(lines[i], words)]]

\* fig_y_mid = y0 + (y1 - y0) / 2.0
FigYMid(y0, y1) == Frac(2 * y0 + (y1 - y0), 2)

\* --------------------------------------------------------------- the merge
\* faulty variant of InsertStable: a figure goes before the figures of equal
\* midpoint already placed (an unstable sort)
RECURSIVE InsertUnstable(_, _, _)
InsertUnstable(sorted, f, i) ==
  IF i > Len(sorted) THEN Append(sorted, f)
  ELSE IF ~Geq(f.y, sorted[i].y) \/ f.y = sorted[i].y
       THEN SubSeq(sorted, 1, i - 1) \o <<f>> \o SubSeq(sorted, i, Len(sorted))
       ELSE InsertUnstable(sorted, f, i + 1)

\* figs.sort(key=lambda f: f[0]): a stable sort, one insertion of it
RECURSIVE InsertStable(_, _, _)
InsertStable(sorted, f, i) ==
  IF i > Len(sorted) THEN Append(sorted, f)
  ELSE IF ~Geq(f.y, sorted[i].y)
       THEN SubSeq(sorted, 1, i - 1) \o <<f>> \o SubSeq(sorted, i, Len(sorted))
       ELSE InsertStable(sorted, f, i + 1)

RECURSIVE SortFrom(_, _, _)
SortFrom(figs, i, acc) ==
  IF i > Len(figs) THEN acc
  ELSE SortFrom(figs, i + 1, InsertStable(acc, figs[i], 1))

SortFigs(figs) == SortFrom(figs, 1, <<>>)

TextLine(ln) == [kind |-> "text", ln |-> ln, num |-> 0, desc |-> ""]
\* f"Figure {figure_counter}: {fig_desc}"
FigText(num, desc) == [kind |-> "figure", ln |-> <<>>, num |-> num, desc |-> desc]

\* faulty variant of AppendLine: empty lines are skipped
AppendLineSkipEmpty(out, ln) == IF ln = <<>> THEN out ELSE Append(out, TextLine(ln))

\* output_lines.append(ln)
AppendLine(out, ln) == Append(out, TextLine(ln))

\* faulty variant of EmitHere: a missing position counts as the top of the page
EmitHereNoneAsZero(fig_y, avg_y) == ~avg_y.def \/ Geq(fig_y, avg_y)

\* if avg_y is not None and fig_y >= avg_y
EmitHere(fig_y, avg_y) == avg_y.def /\ Geq(fig_y, avg_y)

\* the inner while loop after one line; fig_idx counts the figures emitted
RECURSIVE EmitFigs(_, _, _, _)
EmitFigs(figs, fig_idx, avg_y, out) ==
  IF fig_idx < Len(figs) /\ EmitHere(figs[fig_idx + 1].y, avg_y)
  THEN EmitFigs(figs, fig_idx + 1, avg_y, Append(out, figs[fig_idx + 1].text))
  ELSE [out |-> out, fig_idx |-> fig_idx]

\* for (ln, avg_y) in line_positions
RECURSIVE MergeLines(_, _, _, _, _)
MergeLines(lps, figs, i, fig_idx, out) ==
  IF i > Len(lps) THEN [out |-> out, fig_idx |-> fig_idx]
  ELSE LET r == EmitFigs(figs, fig_idx, lps[i].avg_y, AppendLine(out, lps[i].ln))
       IN MergeLines(lps, figs, i + 1, r.fig_idx, r.out)

\* faulty variant of AppendRest: the trailing loop is missing
AppendRestDropped(figs, fig_idx, out) == out

\* "If any figures remain unmatched, place them at the end"
RECURSIVE AppendRest(_, _, _)
AppendRest(figs, fig_idx, out) ==
  IF fig_idx < Len(figs)
  THEN AppendRest(figs, fig_idx + 1, Append(out, figs[fig_idx + 1].text))
  ELSE out

\* output_lines of a page, from line_positions and the sorted figs
Merge(lps, figs) ==
  LET r == MergeLines(lps, figs, 1, 0, <<>>)
  IN AppendRest(figs, r.fig_idx, r.out)

\* ------------------------------------------------------ captioning backends
TextPart == [type |-> "text", data_image |-> FALSE, payload |-> 0]
\* {"type": "image_url", "image_url": {"url": "data:image/png;base64,<n chars>"}}
ImagePart(n) == [type |-> "image_url", data_image |-> TRUE, payload |-> n]
\* an image_url part whose url is no data URI (a plain link)
LinkPart == [type |-> "image_url", data_image |-> FALSE, payload |-> 0]

\* faulty variant of TooLarge: the cap is off by one
TooLargeOffByOne(payload_size) == payload_size > SizeCap + 1

\* if payload_size > 3_000_000
TooLarge(payload_size) == payload_size > SizeCap

\* for c in m["content"]: the first oversized image attachment returns at once
RECURSIVE ScanParts(_, _)
ScanParts(parts, i) ==
  IF i > Len(parts) THEN FALSE
  ELSE IF parts[i].type = "image_url" /\ parts[i].data_image /\ TooLarge(parts[i].payload)
       THEN TRUE
       ELSE ScanParts(parts, i + 1)

\* for m in messages: if isinstance(m.get("content"), list)
RECURSIVE ScanMessages(_, _)
ScanMessages(msgs, i) ==
  IF i > Len(msgs) THEN FALSE
  ELSE IF msgs[i].is_list /\ ScanParts(msgs[i].parts, 1) THEN TRUE
       ELSE ScanMessages(msgs, i + 1)

NoResponse == [kind |-> "none", has_choices |-> FALSE, content |-> ""]
TooLargeResponse ==
  [kind |-> "return", has_choices |-> TRUE, content |-> "Image too large to process."]
\* faulty variant of TimeoutResponse: the timeout is raised like any error
TimeoutRaised == [kind |-> "raise", has_choices |-> FALSE, content |-> ""]
\* except requests.Timeout: return the sentinel
TimeoutResponse ==
  [kind |-> "return", has_choices |-> TRUE, content |-> "The LLM request timed out."]
\* except Exception as e: raise e
Raised == [kind |-> "raise", has_choices |-> FALSE, content |-> ""]

\* What happens to one requests.post: the answer's status and parsed body, a
\* timeout, another transport failure, or a body that is no JSON.
NotSent == [kind |-> "not_sent", status |-> 0, has_choices |-> FALSE, content |-> ""]
HttpAnswers ==
  { [kind |-> "answer", status |-> 200, has_choices |-> TRUE, content |-> c] : c \in RawContents }
  \cup { [kind |-> "answer", status |-> 500, has_choices |-> TRUE, content |-> "A chart."],
         [kind |-> "answer", status |-> 200, has_choices |-> FALSE, content |-> ""] }
HttpFailures ==
  { [kind |-> k, status |-> 0, has_choices |-> FALSE, content |-> ""] :
      k \in {"timeout", "connerror", "badjson"} }
HttpOutcomes == HttpAnswers \cup HttpFailures
\* the outcomes that differ in what a document's processing does with them
DocOutcomes ==
  { [kind |-> "answer", status |-> 200, has_choices |-> TRUE, content |-> " A chart. "],
    [kind |-> "answer", status |-> 200, has_choices |-> FALSE, content |-> ""] }
  \cup HttpFailures

\* LocalLLMClient...create: the response, and whether requests.post was called
create(msgs, http) ==
  IF ScanMessages(msgs, 1)
  THEN [resp |-> TooLargeResponse, posted |-> FALSE]
  ELSE [resp |-> CASE http.kind = "answer" ->
                        [kind |-> "return", has_choices |-> http.has_choices,
                         content |-> http.content]
                   [] http.kind = "timeout" -> TimeoutResponse
                   [] OTHER -> Raised,
        posted |-> TRUE]

\* The OpenAI client's create: it answers or raises (a timeout raises too);
\* it makes no requests.post of this program.
OpenAICreate(msgs, http) ==
  [resp |-> IF http.kind = "answer"
            THEN [kind |-> "return", has_choices |-> http.has_choices,
                  content |-> http.content]
            ELSE Raised,
   posted |-> FALSE]

\* str.strip() on the contents that occur
Strip(content) == IF content = " A chart. " THEN "A chart." ELSE content

\* the messages describe_image_with_llm builds for an image of n base64 chars
DescribeMessages(n) ==
  << [role |-> "user", is_list |-> TRUE, parts |-> <<TextPart, ImagePart(n)>>] >>

\* response.choices[0].message.content.strip()
DescribeResult(resp) ==
  IF resp.kind = "raise" \/ ~resp.has_choices
  THEN [kind |-> "raise", text |-> ""]
  ELSE [kind |-> "return", text |-> Strip(resp.content)]

\* ------------------------------------------------------------------- state
VARIABLES
  pc,             \* where the running call stands
  tmp_exists,     \* the NamedTemporaryFile(delete=False) is on disk
  use_llm, llm_provider, extension,   \* process_document's arguments
  llm_client,     \* "None", "Local" or "OpenAI"
  pending,        \* how the try block was left: "return" or "raise"
  text_content,   \* process_document's result
  num_pages,      \* len(pdf.pages)
  page_num, line_positions, images, im_idx,
  figure_counter, figs, output_lines, text_pages,
  messages,       \* the messages of the create call in flight or just made
  http_event,     \* what became of that call's requests.post
  response,       \* what that create call returned or raised
  http_posts      \* requests.post calls made so far

vars == << pc, tmp_exists, use_llm, llm_provider, extension, llm_client, pending,
           text_content, num_pages, page_num, line_positions, images, im_idx,
           figure_counter, figs, output_lines, text_pages, messages, http_event,
           response, http_posts >>

argVars == << use_llm, llm_provider, extension >>
pageVars == << page_num, line_positions, images, im_idx, figs, output_lines >>
pdfVars == << num_pages, pageVars, figure_counter, text_pages >>
llmVars == << messages, http_event, response, http_posts >>

NoContent == [kind |-> "none", pages |-> <<>>]

\* ---------------------------------------------------------- page sources
Words == [text : WordTexts, top : Tops]
ImageOf(box, n) == [y0 |-> box[1], y1 |-> box[2], b64len |-> n]
\* what pdfplumber yields for one page: the text's lines (text.split never
\* yields an empty list), the words, the images
PageSource(lines, words, imgs) == [lines |-> lines, words |-> words, images |-> imgs]

\* pages of any layout whose images are small
LayoutPages ==
  { PageSource(l, w, i) :
      l \in NonEmptySeqsUpTo(LineTexts, MaxLines),
      w \in SeqsUpTo(Words, MaxWords),
      i \in SeqsUpTo({ ImageOf(b, 1000) : b \in Boxes }, MaxImages) }

\* pages of one layout whose images are of any size
SizedPages ==
  { PageSource(<< <<"a">>, <<"b">> >>,
               << [text |-> <<"a">>, top |-> 10], [text |-> <<"b">>, top |-> 50] >>, i) :
      i \in SeqsUpTo({ ImageOf(<<20, 40>>, n) : n \in PayloadLens }, MaxImages) }

\* -------------------------------------------------------- process_document
Init ==
  /\ pc = "start"
  /\ tmp_exists = FALSE
  /\ use_llm \in BOOLEAN
  /\ llm_provider \in {"Local", "OpenAI"}
  /\ extension \in {".pdf", ".docx"}
  /\ llm_client = "None"
  /\ pending = "none"
  /\ text_content = NoContent
  /\ num_pages = 0
  /\ page_num = 0
  /\ line_positions = <<>>
  /\ images = <<>>
  /\ im_idx = 0
  /\ figure_counter = FirstFigure
  /\ figs = <<>>
  /\ output_lines = <<>>
  /\ text_pages = <<>>
  /\ messages = <<>>
  /\ http_event = NotSent
  /\ response = NoResponse
  /\ http_posts = 0

\* with tempfile.NamedTemporaryFile(delete=False, ...) as tmp_file
CreateTemp ==
  /\ pc = "start"
  /\ \E ok \in BOOLEAN :
       IF ok THEN tmp_exists' = TRUE /\ pc' = "write"
       ELSE tmp_exists' = tmp_exists /\ pc' = "raised"
  /\ UNCHANGED << argVars, llm_client, pending, text_content, pdfVars, llmVars >>

\* tmp_file.write(uploaded_file.getvalue()), outside the try block
WriteUpload ==
  /\ pc = "write"
  /\ \E ok \in BOOLEAN : pc' = IF ok THEN "try" ELSE "raised"
  /\ UNCHANGED << tmp_exists, argVars, llm_client, pending, text_content, pdfVars, llmVars >>

\* the choice of client; a missing library or key raises
SelectClient ==
  /\ pc = "try"
  /\ \E installed \in BOOLEAN, has_key \in BOOLEAN :
       IF use_llm /\ llm_provider = "OpenAI" /\ (~installed \/ ~has_key)
       THEN /\ pc' = "finally"
            /\ pending' = "raise"
            /\ llm_client' = llm_client
       ELSE /\ pc' = "route"
            /\ pending' = pending
            /\ llm_client' = IF ~use_llm THEN "None"
                             ELSE IF llm_provider = "OpenAI" THEN "OpenAI" ELSE "Local"
  /\ UNCHANGED << tmp_exists, argVars, text_content, pdfVars, llmVars >>

IsPdfWithLlm == extension = ".pdf" /\ use_llm

\* result = md.convert(tmp_path)
ConvertFile ==
  /\ pc = "route"
  /\ ~IsPdfWithLlm
  /\ \E ok \in BOOLEAN :
       IF ok THEN text_content' = [kind |-> "converted", pages |-> <<>>] /\ pending' = "return"
       ELSE text_content' = text_content /\ pending' = "raise"
  /\ pc' = "finally"
  /\ UNCHANGED << tmp_exists, argVars, llm_client, pdfVars, llmVars >>

\* ------------------------------------------ process_pdf_with_images_and_text
\* text_pages = [], figure_counter = 1, pdfplumber.open(tmp_path)
OpenPdf(PageCounts) ==
  /\ pc = "route"
  /\ IsPdfWithLlm
  /\ \E n \in PageCounts :
       /\ num_pages' = n
       /\ text_pages' = <<>>
       /\ figure_counter' = FirstFigure
       /\ pc' = "page_loop"
  /\ UNCHANGED << tmp_exists, argVars, llm_client, pending, text_content, pageVars, llmVars >>

\* pdfplumber cannot open the file
OpenPdfFails ==
  /\ pc = "route"
  /\ IsPdfWithLlm
  /\ pc' = "finally"
  /\ pending' = "raise"
  /\ UNCHANGED << tmp_exists, argVars, llm_client, text_content, pdfVars, llmVars >>

\* faulty variant of ExtractPage: the counter restarts on every page
ExtractPageResetsCounter(Pages) ==
  /\ pc = "page_loop"
  /\ page_num < num_pages
  /\ \E p \in Pages :
       /\ line_positions' = LinePositions(p.lines, p.words)
       /\ images' = p.images
  /\ page_num' = page_num + 1
  /\ figs' = <<>>
  /\ im_idx' = 0
  /\ figure_counter' = FirstFigure
  /\ pc' = "image_loop"
  /\ UNCHANGED << tmp_exists, argVars, llm_client, pending, text_content, num_pages,
                  output_lines, text_pages, llmVars >>

\* the next page: its lines with positions, its images
ExtractPage(Pages) ==
  /\ pc = "page_loop"
  /\ page_num < num_pages
  /\ \E p \in Pages :
       /\ line_positions' = LinePositions(p.lines, p.words)
       /\ images' = p.images
  /\ page_num' = page_num + 1
  /\ figs' = <<>>
  /\ im_idx' = 0
  /\ pc' = "image_loop"
  /\ UNCHANGED << tmp_exists, argVars, llm_client, pending, text_content, num_pages,
                  figure_counter, output_lines, text_pages, llmVars >>

\* extract_text, extract_words or to_image raises
ExtractPageFails ==
  /\ pc = "page_loop"
  /\ page_num < num_pages
  /\ pc' = "finally"
  /\ pending' = "raise"
  /\ UNCHANGED << tmp_exists, argVars, llm_client, text_content, pdfVars, llmVars >>

\* faulty variant of DispatchCaption: the counter moves at dispatch already
DispatchCaptionBumpsCounter ==
  /\ pc = "image_loop"
  /\ im_idx < Len(images)
  /\ messages' = DescribeMessages(images[im_idx + 1].b64len)
  /\ figure_counter' = figure_counter + 1
  /\ pc' = "captioning"
  /\ UNCHANGED << tmp_exists, argVars, llm_client, pending, text_content, num_pages,
                  pageVars, text_pages, http_event, response, http_posts >>

\* the next image is cropped and describe_image_with_llm calls create
DispatchCaption ==
  /\ pc = "image_loop"
  /\ im_idx < Len(images)
  /\ messages' = DescribeMessages(images[im_idx + 1].b64len)
  /\ pc' = "captioning"
  /\ UNCHANGED << tmp_exists, argVars, llm_client, pending, text_content, pdfVars,
                  http_event, response, http_posts >>

\* create returns or raises; on a return the figure is numbered and appended
CompleteCaption(Outcomes) ==
  /\ pc = "captioning"
  /\ \E http \in Outcomes :
       LET c == IF llm_client = "Local" THEN create(messages, http)
                ELSE OpenAICreate(messages, http)
           d == DescribeResult(c.resp)
           im == images[im_idx + 1]
       IN /\ response' = c.resp
          /\ http_event' = IF c.posted THEN http ELSE NotSent
          /\ http_posts' = http_posts + (IF c.posted THEN 1 ELSE 0)
          /\ IF d.kind = "raise"
             THEN /\ pc' = "finally"
                  /\ pending' = "raise"
                  /\ UNCHANGED << figs, figure_counter, im_idx >>
             ELSE /\ figs' = Append(figs, [y |-> FigYMid(im.y0, im.y1),
                                           text |-> FigText(figure_counter, d.text)])
                  /\ figure_counter' = figure_counter + 1
                  /\ im_idx' = im_idx + 1
                  /\ pc' = "image_loop"
                  /\ pending' = pending
  /\ UNCHANGED << tmp_exists, argVars, llm_client, text_content, num_pages, page_num,
                  line_positions, images, output_lines, text_pages, messages >>

\* figs.sort, the merge, text_pages.append(f"--- Page {page_num} ---\n...")
MergePage ==
  /\ pc = "image_loop"
  /\ im_idx = Len(images)
  /\ figs' = SortFigs(figs)
  /\ output_lines' = Merge(line_positions, figs')
  /\ text_pages' = Append(text_pages, [page |-> page_num, output |-> output_lines'])
  /\ pc' = "page_loop"
  /\ UNCHANGED << tmp_exists, argVars, llm_client, pending, text_content, num_pages,
                  page_num, line_positions, images, im_idx, figure_counter, llmVars >>

\* return "\n\n".join(text_pages): the pages in order
ReturnPdf ==
  /\ pc = "page_loop"
  /\ page_num = num_pages
  /\ text_content' = [kind |-> "pdf", pages |-> text_pages]
  /\ pending' = "return"
  /\ pc' = "finally"
  /\ UNCHANGED << tmp_exists, argVars, llm_client, pdfVars, llmVars >>

\* finally: os.unlink(tmp_path); then the return or the re-raise
Finally ==
  /\ pc = "finally"
  /\ tmp_exists' = FALSE
  /\ pc' = IF pending = "return" THEN "returned" ELSE "raised"
  /\ UNCHANGED << argVars, llm_client, pending, text_content, pdfVars, llmVars >>

Next ==
  \/ CreateTemp
  \/ WriteUpload
  \/ SelectClient
  \/ ConvertFile
  \/ OpenPdf(1..MaxPages)
  \/ OpenPdfFails
  \/ ExtractPage(SizedPages)
  \/ ExtractPageFails
  \/ DispatchCaption
  \/ CompleteCaption(DocOutcomes)
  \/ MergePage
  \/ ReturnPdf
  \/ Finally

\* process_document, called with any arguments
Spec == Init /\ [][Next]_vars

\* ---------------------------------------- one page of any layout, merged
\* process_pdf_with_images_and_text entered with the local client
InitMerge ==
  /\ pc = "route"
  /\ tmp_exists = TRUE
  /\ use_llm = TRUE
  /\ llm_provider = "Local"
  /\ extension = ".pdf"
  /\ llm_client = "Local"
  /\ pending = "none"
  /\ text_content = NoContent
  /\ num_pages = 0
  /\ page_num = 0
  /\ line_positions = <<>>
  /\ images = <<>>
  /\ im_idx = 0
  /\ figure_counter = FirstFigure
  /\ figs = <<>>
  /\ output_lines = <<>>
  /\ text_pages = <<>>
  /\ messages = <<>>
  /\ http_event = NotSent
  /\ response = NoResponse
  /\ http_posts = 0

PlainAnswer == { [kind |-> "answer", status |-> 200, has_choices |-> TRUE, content |-> "A chart."] }

NextMerge ==
  \/ OpenPdf({1})
  \/ ExtractPage(LayoutPages)
  \/ DispatchCaption
  \/ CompleteCaption(PlainAnswer)
  \/ MergePage
  \/ ReturnPdf
  \/ Finally

SpecMerge == InitMerge /\ [][NextMerge]_vars

\* ------------------------------------------- create called with any messages
Parts == { TextPart, LinkPart, ImagePart(SizeCap), ImagePart(SizeCap + 1) }
\* a message whose content is a string, or a list of parts
Messages ==
  { [role |-> "user", is_list |-> FALSE, parts |-> <<>>] }
  \cup { [role |-> "user", is_list |-> TRUE, parts |-> ps] : ps \in SeqsUpTo(Parts, MaxParts) }

InitCreate ==
  /\ pc = "create_call"
  /\ tmp_exists = FALSE
  /\ use_llm = TRUE
  /\ llm_provider = "Local"
  /\ extension = ".pdf"
  /\ llm_client = "Local"
  /\ pending = "none"
  /\ text_content = NoContent
  /\ num_pages = 0
  /\ page_num = 0
  /\ line_positions = <<>>
  /\ images = <<>>
  /\ im_idx = 0
  /\ figure_counter = FirstFigure
  /\ figs = <<>>
  /\ output_lines = <<>>
  /\ text_pages = <<>>
  /\ messages = <<>>
  /\ http_event = NotSent
  /\ response = NoResponse
  /\ http_posts = 0

\* LocalLLMClient().chat.completions.create(model, messages)
CallCreate ==
  /\ pc = "create_call"
  /\ \E msgs \in SeqsUpTo(Messages, MaxMessages), http \in HttpOutcomes :
       LET c == create(msgs, http)
       IN /\ messages' = msgs
          /\ response' = c.resp
          /\ http_event' = IF c.posted THEN http ELSE NotSent
          /\ http_posts' = http_posts + (IF c.posted THEN 1 ELSE 0)
  /\ pc' = "create_done"
  /\ UNCHANGED << tmp_exists, argVars, llm_client, pending, text_content, pdfVars >>

NextCreate == CallCreate

SpecCreate == InitCreate /\ [][NextCreate]_vars

\* ===================================================================== claims
\* ------------------------------------------------------- reading a page's output
FigEntries(out) == SelectSeq(out, LAMBDA e : e.kind = "figure")
TextEntries(out) == SelectSeq(out, LAMBDA e : e.kind = "text")
FigNumSet(out) == { out[k].num : k \in { j \in 1..Len(out) : out[j].kind = "figure" } }

RECURSIVE FiguresIn(_, _)
\* the number of figure entries on the first k finished pages
FiguresIn(pages, k) ==
  IF k = 0 THEN 0 ELSE FiguresIn(pages, k - 1) + Len(FigEntries(pages[k].output))

\* MergePage has just run: line_positions, images, figs (sorted) and output_lines
\* are those of page page_num
PageMerged == pc = "page_loop" /\ page_num >= 1

\* the page-local discovery index of the image holding figure number n
ImageIndexOf(n) == n - (figure_counter - 1 - Len(images))
\* the vertical midpoint of the image holding figure number n
MidOfNum(n) == FigYMid(images[ImageIndexOf(n)].y0, images[ImageIndexOf(n)].y1)
\* where figure number n stands in the page's output
OutIndexOfNum(n) ==
  CHOOSE k \in 1..Len(output_lines) :
    output_lines[k].kind = "figure" /\ output_lines[k].num = n
\* where the page's i-th line stands in the page's output
OutIndexOfLine(i) ==
  CHOOSE k \in 1..Len(output_lines) :
    /\ output_lines[k].kind = "text"
    /\ Len(TextEntries(SubSeq(output_lines, 1, k))) = i
SetMax(S) == CHOOSE x \in S : \A y \in S : y <= x
SetMin(S) == CHOOSE x \in S : \A y \in S : x <= y

\* C1: across a whole document the figure numbers are 1, 2, ..., N without gap,
\* repeat or reset at a page boundary: on the page in progress the i-th image
\* discovered holds the number (figures of the finished pages) + i, every
\* finished page holds exactly the numbers that follow those of the pages
\* before it, and at the return the numbers are 1..N, N the number of images.
C1_FigureNumbersContiguous ==
  /\ pc \in {"image_loop", "captioning"} =>
       /\ Len(figs) = im_idx
       /\ \A i \in 1..Len(figs) :
            figs[i].text.num = FiguresIn(text_pages, Len(text_pages)) + i
  /\ \A k \in 1..Len(text_pages) :
       LET before == FiguresIn(text_pages, k - 1)
           here == Len(FigEntries(text_pages[k].output))
       IN FigNumSet(text_pages[k].output) = (before + 1)..(before + here)
  /\ PageMerged => Len(FigEntries(output_lines)) = Len(images)
  /\ (pc = "returned" /\ text_content.kind = "pdf") =>
       /\ text_content.pages = text_pages
       /\ FiguresIn(text_pages, Len(text_pages)) = figure_counter - 1
       /\ UNION { FigNumSet(text_pages[k].output) : k \in 1..Len(text_pages) }
            = 1..(figure_counter - 1)

\* a document returned whose first page holds figures 1 and 2 and whose second
\* page holds figure 3
C1_Witness ==
  /\ pc = "returned"
  /\ Len(text_content.pages) = 2
  /\ FigNumSet(text_content.pages[1].output) = {1, 2}
  /\ FigNumSet(text_content.pages[2].output) = {3}

\* C2 (as claimed): every caption with midpoint m stands right after the last
\* line whose defined position is <= m, only captions between them, and before
\* the next line whose defined position is > m.
C2_CaptionAfterLastLineAbove ==
  PageMerged =>
    \A k \in 1..Len(output_lines) :
      output_lines[k].kind = "figure" =>
        LET m == MidOfNum(output_lines[k].num)
            above == { i \in 1..Len(line_positions) :
                         line_positions[i].avg_y.def /\ Leq(line_positions[i].avg_y, m) }
            last == IF above = {} THEN 0 ELSE SetMax(above)
            below == { i \in (last + 1)..Len(line_positions) :
                         line_positions[i].avg_y.def /\ ~Leq(line_positions[i].avg_y, m) }
        IN /\ above # {} =>
                /\ OutIndexOfLine(last) < k
                /\ \A j \in (OutIndexOfLine(last) + 1)..(k - 1) :
                     output_lines[j].kind = "figure"
           /\ below # {} => k < OutIndexOfLine(SetMin(below))

\* C3: deleting the figure entries from a page's merged output leaves exactly
\* the page's extracted lines, in order, none dropped or duplicated.
C3_MergeOrderPreserving ==
  PageMerged =>
    TextEntries(output_lines)
      = [i \in 1..Len(line_positions) |-> TextLine(line_positions[i].ln)]

\* a merged page with an empty line without position, and a figure between two lines
C3_Witness ==
  /\ PageMerged
  /\ \E i \in 1..Len(line_positions) :
       line_positions[i].ln = <<>> /\ ~line_positions[i].avg_y.def
  /\ \E k \in 2..(Len(output_lines) - 1) :
       /\ output_lines[k].kind = "figure"
       /\ output_lines[k - 1].kind = "text"
       /\ output_lines[k + 1].kind = "text"

\* C4: a create call whose messages hold an image attachment with more than
\* 3,000,000 encoded characters returns "Image too large to process." and
\* issues no HTTP request.
C4_TooLargeShortCircuits ==
  (/\ pc = "create_done"
   /\ \E i \in 1..Len(messages) :
        /\ messages[i].is_list
        /\ \E j \in 1..Len(messages[i].parts) :
             /\ messages[i].parts[j].type = "image_url"
             /\ messages[i].parts[j].data_image
             /\ messages[i].parts[j].payload > 3000000)
  => /\ response.kind = "return"
     /\ response.has_choices
     /\ response.content = "Image too large to process."
     /\ http_posts = 0
     /\ http_event.kind = "not_sent"

\* a call whose second message holds the oversized image, after a first message
\* holding an image of exactly 3,000,000 characters
C4_Witness ==
  /\ pc = "create_done"
  /\ Len(messages) = 2
  /\ messages[1].is_list /\ messages[1].parts = <<ImagePart(3000000)>>
  /\ messages[2].is_list /\ messages[2].parts = <<ImagePart(3000001)>>
  /\ response.content = "Image too large to process."
  /\ http_posts = 0

\* C5: with the local client, a request that times out makes create return
\* "The LLM request timed out.", which becomes the image's caption while the
\* image loop goes on; a transport or parse failure raises, and the error
\* leaves process_document.
C5_TimeoutAbsorbedOthersPropagate ==
  [][ /\ (pc = "captioning" /\ pc' # "captioning" /\ llm_client = "Local"
            /\ http_event'.kind = "timeout")
         => /\ response'.kind = "return"
            /\ response'.content = "The LLM request timed out."
            /\ pc' = "image_loop"
            /\ pending' = pending
            /\ im_idx' = im_idx + 1
            /\ figs' = Append(figs,
                 [y |-> FigYMid(images[im_idx + 1].y0, images[im_idx + 1].y1),
                  text |-> FigText(figure_counter, "The LLM request timed out.")])
      /\ (pc = "captioning" /\ pc' # "captioning" /\ llm_client = "Local"
            /\ http_event'.kind \in {"connerror", "badjson"})
         => /\ response'.kind = "raise"
            /\ pc' = "finally"
            /\ pending' = "raise"
            /\ figs' = figs
      /\ (pc = "finally" /\ pending = "raise" /\ pc' # pc) => pc' = "raised"
    ]_vars

\* a document returned in which figure 1 is captioned by the timeout text and
\* a later page holds a figure captioned by the backend's answer
C5_Witness ==
  /\ pc = "returned"
  /\ llm_client = "Local"
  /\ Len(text_content.pages) = 2
  /\ \E k \in 1..Len(text_content.pages[1].output) :
       /\ text_content.pages[1].output[k].kind = "figure"
       /\ text_content.pages[1].output[k].num = 1
       /\ text_content.pages[1].output[k].desc = "The LLM request timed out."
  /\ \E k \in 1..Len(text_content.pages[2].output) :
       /\ text_content.pages[2].output[k].kind = "figure"
       /\ text_content.pages[2].output[k].desc = "A chart."

\* C6 (as claimed): whenever process_document has returned or raised, the
\* temporary file is gone.
C6_TempFileRemovedOnEveryExit ==
  pc \in {"returned", "raised"} => ~tmp_exists

C8_NoPositionsCaptionsAtEnd ==
  (/\ PageMerged
   /\ Len(images) >= 1
   /\ \A i \in 1..Len(line_positions) : ~line_positions[i].avg_y.def)
  => /\ Len(output_lines) = Len(line_positions) + Len(images)
     /\ \A k \in 1..Len(output_lines) :
          output_lines[k].kind = IF k <= Len(line_positions) THEN "text" ELSE "figure"
     /\ \A k \in (Len(line_positions) + 1)..(Len(output_lines) - 1) :
          Leq(MidOfNum(output_lines[k].num), MidOfNum(output_lines[k + 1].num))

\* two lines without position, and two images discovered lower one first
C8_Witness ==
  /\ PageMerged
  /\ Len(line_positions) = 2
  /\ \A i \in 1..Len(line_positions) : ~line_positions[i].avg_y.def
  /\ Len(images) = 2
  /\ ~Leq(MidOfNum(1), MidOfNum(2))
  /\ output_lines[3].num = 2
  /\ output_lines[4].num = 1

\* C9: two images of a page with equal midpoint have their captions in the
\* page's output in the order the images were discovered.
C9_TiesKeepDiscoveryOrder ==
  PageMerged =>
    \A i \in 1..Len(images) : \A j \in 1..Len(images) :
      (i < j /\ FigYMid(images[i].y0, images[i].y1) = FigYMid(images[j].y0, images[j].y1))
      => LET base == figure_counter - 1 - Len(images)
         IN OutIndexOfNum(base + i) < OutIndexOfNum(base + j)

\* a merged page with two images of equal midpoint
C9_Witness ==
  /\ PageMerged
  /\ Len(images) = 2
  /\ MidOfNum(1) = MidOfNum(2)
  /\ OutIndexOfNum(1) < OutIndexOfNum(2)

\* C10: each image of a page contributes exactly one figure entry to the
\* page's merged output.
C10_OneEntryPerImage ==
  PageMerged =>
    /\ Len(FigEntries(output_lines)) = Len(images)
    /\ \A i \in 1..Len(images) :
         Cardinality({ k \in 1..Len(output_lines) :
                         /\ output_lines[k].kind = "figure"
                         /\ output_lines[k].num = figure_counter - 1 - Len(images) + i }) = 1

\* a merged page whose lines all have positions below both of its images'
\* midpoints: both captions are left for the end
C10_Witness ==
  /\ PageMerged
  /\ Len(images) = 2
  /\ Len(line_positions) = 2
  /\ \A i \in 1..2 : line_positions[i].avg_y.def
  /\ output_lines[3].kind = "figure"
  /\ output_lines[4].kind = "figure"

====
